---- MODULE Spec2Model ----
(***************************************************************************)
(* A model of the two scripts of supabase-file-upload-manager:             *)
(*   missing_file_uploader.py  (fetch_file_list_from_bucket,               *)
(*       is_file_valid, get_missing_files_from_csv, upload_missing_files,  *)
(*       delete_missing_ids_from_database and the __main__ workflow)       *)
(*   bucket_folder_deleter.py  (delete_folder)                             *)
(* The storage client, the database client, the local file system and the  *)
(* CSV reader are the environment: every outcome they can produce (a page, *)
(* an exception, a status code) is a nondeterministic choice of an action. *)
(* Calls made to the environment are recorded in history variables         *)
(* (listCalls, pages, uploadCalls, removeCalls, resolverCalls).            *)
(***************************************************************************)
EXTENDS Integers, Sequences, FiniteSets, TLC

VARIABLES
  \* fetch_file_list_from_bucket
  remote,            \* the remote directory listing, in the server's order
  limit,             \* the page size argument
  offset,            \* the offset cursor
  available_files,   \* set of names accumulated
  zero_byte_files,   \* set of zero-byte names accumulated
  fpc,               \* "idle" | "loop" | "done"
  listCalls,         \* history: the offsets of the list calls issued
  pages,             \* history: the responses of the successful list calls
  fetchFailed,       \* history: a list call raised
  fetchResult,       \* the returned pair (<<>> before the return)
  \* get_missing_files_from_csv
  csvRows,           \* the rows the CSV reader yields when nothing fails
  file_extension,
  file_list,
  zero_byte_list,
  rowIdx,            \* number of rows processed
  missing_ids,
  cpc,               \* "idle" | "open" | "rows" | "done"
  csvFailed,         \* history: the read raised
  \* upload_missing_files
  missing_files,     \* the list argument
  localFiles,        \* names for which os.path.exists is true
  uidx,              \* number of entries visited
  uploadCalls,       \* history: remote paths of the upload calls issued
  outcomes,          \* history: what was printed for each visited entry
  upc,               \* "idle" | "loop" | "done"
  \* delete_folder
  folder_name,
  folder,            \* names of the files in the remote folder, listing order
  folderAtStart,     \* history: the folder when delete_folder started
  response,          \* the local variable response
  dpc,               \* "idle" | "list" | "remove" | "done"
  dListCalls,        \* history: number of list calls issued
  removeCalls,       \* history: arguments of the remove calls issued
  deleteStatus,      \* history: "none" | "ok" | "failed" | "raised"
  \* __main__ of missing_file_uploader
  mpc,               \* "off" | "fetch" | "reconcile" | "choose" | "resolve" | "done" | "exit"
  resolverCalls      \* history: the resolver invocations of the run

fetchVars  == <<remote, limit, offset, available_files, zero_byte_files, fpc,
                listCalls, pages, fetchFailed, fetchResult>>
csvVars    == <<csvRows, file_extension, file_list, zero_byte_list, rowIdx,
                missing_ids, cpc, csvFailed>>
uploadVars == <<missing_files, localFiles, uidx, uploadCalls, outcomes, upc>>
deleteVars == <<folder_name, folder, folderAtStart, response, dpc, dListCalls,
                removeCalls, deleteStatus>>
mainVars   == <<mpc, resolverCalls>>
vars == <<fetchVars, csvVars, uploadVars, deleteVars, mainVars>>

----------------------------------------------------------------------------
\* Bounds of the model.
MaxRemote == 3       \* longest remote listing
MaxLimit == 2        \* largest page size tried
MaxRows == 4         \* longest CSV
MaxMissing == 3      \* longest list given to upload_missing_files
MaxFolder == 3       \* largest remote folder

SeqsUpTo(S, n) == UNION {[1..k -> S] : k \in 0..n}

Min(a, b) == IF a < b THEN a ELSE b

\* Python values that may be None: the sets returned by the fetcher.
NoneVal == [isNone |-> TRUE, val |-> {}]
SetVal(s) == [isNone |-> FALSE, val |-> s]

----------------------------------------------------------------------------
\* Listing entries: {name, metadata}. metadata.truthy is FALSE for an absent,
\* None or empty metadata; hasSize tells whether the metadata has a "size" key.
NoMetadata == [truthy |-> FALSE, hasSize |-> FALSE, size |-> 0]
MetadataValues ==
  { NoMetadata,
    [truthy |-> TRUE, hasSize |-> FALSE, size |-> 0],
    [truthy |-> TRUE, hasSize |-> TRUE, size |-> 0],
    [truthy |-> TRUE, hasSize |-> TRUE, size |-> 5] }
\* Every entry the service lists carries a name, so the "" default of
\* item.get("name", "") is never taken.
FetchNames == {"1.txt", "2.txt"}
Entries == [name : FetchNames, metadata : MetadataValues]

\* item.get("metadata").get("size", 0)
SizeOrDefault(metadata) == IF metadata.hasSize THEN metadata.size ELSE 0

\* item.get("metadata") and item.get("metadata").get("size", 0) == 0
IsZeroByte(item) == item.metadata.truthy /\ SizeOrDefault(item.metadata) = 0

NamesOf(page) == {page[i].name : i \in DOMAIN page}
ZeroNamesOf(page) == {page[i].name : i \in {j \in DOMAIN page : IsZeroByte(page[j])}}

\* The storage service: list(dir, {limit, offset}) over the remote listing.
ListPage(listing, lim, off) == SubSeq(listing, off + 1, Min(off + lim, Len(listing)))

StopAfterFullPage(page, lim) == Len(page) <= lim

\* "if len(response) < limit: break"
StopAfterPage(page, lim) == Len(page) < lim

\* "offset += limit"
NextOffset(off, lim) == off + lim

\* the normal return: "return available_files, zero_byte_files"
FetchReturn(names, zero) == <<SetVal(names), SetVal(zero)>>

KeepPartialOnFailure(names, zero) == <<SetVal(names), SetVal(zero)>>

NoneOnFailure(names, zero) == <<NoneVal, NoneVal>>

\* the except branch: "return set(), set()"
FetchFailureResult(names, zero) == <<SetVal({}), SetVal({})>>

\* One iteration of the while loop whose list call succeeds.
FetchPage ==
  /\ fpc = "loop"
  /\ LET page == ListPage(remote, limit, offset) IN
       /\ listCalls' = Append(listCalls, offset)
       /\ pages' = Append(pages, page)
       /\ IF page = <<>>
            THEN /\ fpc' = "done"
                 /\ fetchResult' = FetchReturn(available_files, zero_byte_files)
                 /\ UNCHANGED <<available_files, zero_byte_files, offset>>
            ELSE /\ available_files' = available_files \cup NamesOf(page)
                 /\ zero_byte_files' = zero_byte_files \cup ZeroNamesOf(page)
                 /\ IF StopAfterPage(page, limit)
                      THEN /\ fpc' = "done"
                           /\ fetchResult' = FetchReturn(available_files', zero_byte_files')
                           /\ UNCHANGED offset
                      ELSE /\ fpc' = "loop"
                           /\ offset' = NextOffset(offset, limit)
                           /\ UNCHANGED fetchResult
  /\ UNCHANGED <<remote, limit, fetchFailed>>
  /\ UNCHANGED <<csvVars, uploadVars, deleteVars, mainVars>>

\* One iteration of the while loop whose list call raises.
FetchListRaises ==
  /\ fpc = "loop"
  /\ listCalls' = Append(listCalls, offset)
  /\ fetchFailed' = TRUE
  /\ fpc' = "done"
  /\ fetchResult' = FetchFailureResult(available_files, zero_byte_files)
  /\ UNCHANGED <<remote, limit, offset, available_files, zero_byte_files, pages>>
  /\ UNCHANGED <<csvVars, uploadVars, deleteVars, mainVars>>

FetchStart(listing, lim) ==
  /\ remote = listing
  /\ limit = lim
  /\ offset = 0
  /\ available_files = {}
  /\ zero_byte_files = {}
  /\ fpc = "loop"
  /\ listCalls = <<>>
  /\ pages = <<>>
  /\ fetchFailed = FALSE
  /\ fetchResult = <<>>

FetchIdle ==
  /\ remote = <<>>
  /\ limit = 1
  /\ offset = 0
  /\ available_files = {}
  /\ zero_byte_files = {}
  /\ fpc = "idle"
  /\ listCalls = <<>>
  /\ pages = <<>>
  /\ fetchFailed = FALSE
  /\ fetchResult = <<>>

----------------------------------------------------------------------------
\* CSV rows as csv.DictReader yields them: hasId is FALSE when row.get("id")
\* is None (no id column, or a short row), otherwise id is the cell's text.
NoId == [hasId |-> FALSE, id |-> ""]
CsvIds == {"", "1", "2", "3"}
RowValues == {NoId} \cup {[hasId |-> TRUE, id |-> i] : i \in CsvIds}
Extensions == {"txt", "md"}

\* f"{id_value}.{file_extension}"
FileName(id, ext) == id \o "." \o ext

IgnoreZeroByteList(file_name, files, zero_bytes) == file_name \in files

\* is_file_valid
IsFileValid(file_name, files, zero_bytes) ==
  file_name \in files /\ ~(file_name \in zero_bytes)

\* "if not id_value: continue"
RowSkipped(row) == ~row.hasId \/ row.id = ""

DropPartialOnCsvError(ids) == <<>>

\* the list that reaches "return missing_ids" through the except branch
MissingAfterCsvError(ids) == ids

\* open(csv_path, ...) succeeds and the DictReader is built.
CsvOpen ==
  /\ cpc = "open"
  /\ cpc' = "rows"
  /\ UNCHANGED <<csvRows, file_extension, file_list, zero_byte_list, rowIdx,
                 missing_ids, csvFailed>>
  /\ UNCHANGED <<fetchVars, uploadVars, deleteVars, mainVars>>

\* open(csv_path, ...) raises: except branch, then return missing_ids.
CsvOpenRaises ==
  /\ cpc = "open"
  /\ csvFailed' = TRUE
  /\ missing_ids' = MissingAfterCsvError(missing_ids)
  /\ cpc' = "done"
  /\ UNCHANGED <<csvRows, file_extension, file_list, zero_byte_list, rowIdx>>
  /\ UNCHANGED <<fetchVars, uploadVars, deleteVars, mainVars>>

\* One iteration of "for row in csvreader".
CsvRow ==
  /\ cpc = "rows"
  /\ rowIdx < Len(csvRows)
  /\ LET row == csvRows[rowIdx + 1]
         file_name == FileName(row.id, file_extension)
     IN  missing_ids' =
           IF RowSkipped(row) THEN missing_ids
           ELSE IF ~IsFileValid(file_name, file_list, zero_byte_list)
                  THEN Append(missing_ids, row.id)
                  ELSE missing_ids
  /\ rowIdx' = rowIdx + 1
  /\ UNCHANGED <<csvRows, file_extension, file_list, zero_byte_list, cpc, csvFailed>>
  /\ UNCHANGED <<fetchVars, uploadVars, deleteVars, mainVars>>

\* The reader raises while fetching the next row (decoding or I/O error).
CsvReadRaises ==
  /\ cpc = "rows"
  /\ csvFailed' = TRUE
  /\ missing_ids' = MissingAfterCsvError(missing_ids)
  /\ cpc' = "done"
  /\ UNCHANGED <<csvRows, file_extension, file_list, zero_byte_list, rowIdx>>
  /\ UNCHANGED <<fetchVars, uploadVars, deleteVars, mainVars>>

\* The reader is exhausted: return missing_ids.
CsvEnd ==
  /\ cpc = "rows"
  /\ rowIdx = Len(csvRows)
  /\ cpc' = "done"
  /\ UNCHANGED <<csvRows, file_extension, file_list, zero_byte_list, rowIdx,
                 missing_ids, csvFailed>>
  /\ UNCHANGED <<fetchVars, uploadVars, deleteVars, mainVars>>

CsvStart(rows, ext, files, zero_bytes, pc) ==
  /\ csvRows = rows
  /\ file_extension = ext
  /\ file_list = files
  /\ zero_byte_list = zero_bytes
  /\ rowIdx = 0
  /\ missing_ids = <<>>
  /\ cpc = pc
  /\ csvFailed = FALSE

CsvIdle == CsvStart(<<>>, "txt", {}, {}, "idle")

----------------------------------------------------------------------------
\* upload_missing_files
BucketDir == "contents"
UploadIds == {"1", "2"}
LocalNames == {"1.txt", "2.txt"}
StatusCodes == {200, 201, 404}
\* What response.json() does with the body: a JSON object, another JSON value
\* (error_content.get raises AttributeError), or json.JSONDecodeError.
Bodies == {"json_object", "json_other", "not_json"}

\* os.path.exists(local_file_path)
LocalFileExists(file_name, files) == file_name \in files

\* f"{bucket_dir}/{file_name}"
RemotePath(dir, file_name) == dir \o "/" \o file_name

\* "if response.status_code == 200"
UploadSucceeded(status) == status = 200

\* What is printed for a response: lines 115 to 128.
ReportFor(status, body) ==
  IF UploadSucceeded(status) THEN "success"
  ELSE IF body = "json_object" THEN "failed_json_error"
  ELSE IF body = "not_json" THEN "failed_raw_text"
  ELSE "error"

Outcome(id, exists, readRaised, status, report) ==
  [id |-> id, exists |-> exists, readRaised |-> readRaised,
   status |-> status, report |-> report]

\* The entry's file does not exist: the else branch, no call.
UploadNotFound ==
  /\ upc = "loop"
  /\ uidx < Len(missing_files)
  /\ LET id == missing_files[uidx + 1] IN
       /\ ~LocalFileExists(FileName(id, file_extension), localFiles)
       /\ outcomes' = Append(outcomes, Outcome(id, FALSE, FALSE, 0, "not_found"))
  /\ uidx' = uidx + 1
  /\ UNCHANGED <<missing_files, localFiles, uploadCalls, upc>>
  /\ UNCHANGED <<fetchVars, csvVars, deleteVars, mainVars>>

\* open() or read() raises: caught by "except Exception", no upload call.
UploadReadRaises ==
  /\ upc = "loop"
  /\ uidx < Len(missing_files)
  /\ LET id == missing_files[uidx + 1] IN
       /\ LocalFileExists(FileName(id, file_extension), localFiles)
       /\ outcomes' = Append(outcomes, Outcome(id, TRUE, TRUE, 0, "error"))
  /\ uidx' = uidx + 1
  /\ UNCHANGED <<missing_files, localFiles, uploadCalls, upc>>
  /\ UNCHANGED <<fetchVars, csvVars, deleteVars, mainVars>>

AbortOnUploadError ==
  /\ upc = "loop"
  /\ uidx < Len(missing_files)
  /\ LET id == missing_files[uidx + 1]
         file_name == FileName(id, file_extension)
     IN  /\ LocalFileExists(file_name, localFiles)
         /\ uploadCalls' = Append(uploadCalls,
                [index |-> uidx + 1, path |-> RemotePath(BucketDir, file_name)])
         /\ outcomes' = Append(outcomes, Outcome(id, TRUE, FALSE, 0, "error"))
  /\ uidx' = uidx + 1
  /\ upc' = "raised"
  /\ UNCHANGED <<missing_files, localFiles>>
  /\ UNCHANGED <<fetchVars, csvVars, deleteVars, mainVars>>

\* The upload call is issued and raises: caught by "except Exception".
UploadCallRaises ==
  /\ upc = "loop"
  /\ uidx < Len(missing_files)
  /\ LET id == missing_files[uidx + 1]
         file_name == FileName(id, file_extension)
     IN  /\ LocalFileExists(file_name, localFiles)
         /\ uploadCalls' = Append(uploadCalls,
                [index |-> uidx + 1, path |-> RemotePath(BucketDir, file_name)])
         /\ outcomes' = Append(outcomes, Outcome(id, TRUE, FALSE, 0, "error"))
  /\ uidx' = uidx + 1
  /\ UNCHANGED <<missing_files, localFiles, upc>>
  /\ UNCHANGED <<fetchVars, csvVars, deleteVars, mainVars>>

\* The upload call is issued and returns a response.
UploadResponse ==
  /\ upc = "loop"
  /\ uidx < Len(missing_files)
  /\ LET id == missing_files[uidx + 1]
         file_name == FileName(id, file_extension)
     IN  /\ LocalFileExists(file_name, localFiles)
         /\ uploadCalls' = Append(uploadCalls,
                [index |-> uidx + 1, path |-> RemotePath(BucketDir, file_name)])
         /\ \E status \in StatusCodes, body \in Bodies :
              outcomes' = Append(outcomes,
                 Outcome(id, TRUE, FALSE, status, ReportFor(status, body)))
  /\ uidx' = uidx + 1
  /\ UNCHANGED <<missing_files, localFiles, upc>>
  /\ UNCHANGED <<fetchVars, csvVars, deleteVars, mainVars>>

\* The for loop is exhausted: the function returns.
UploadEnd ==
  /\ upc = "loop"
  /\ uidx = Len(missing_files)
  /\ upc' = "done"
  /\ UNCHANGED <<missing_files, localFiles, uidx, uploadCalls, outcomes>>
  /\ UNCHANGED <<fetchVars, csvVars, deleteVars, mainVars>>

UploadStart(ids, files, pc) ==
  /\ missing_files = ids
  /\ localFiles = files
  /\ uidx = 0
  /\ uploadCalls = <<>>
  /\ outcomes = <<>>
  /\ upc = pc

----------------------------------------------------------------------------
\* delete_folder
\* The "limit" of the single list call; 10000 in the source, scaled down.
DeleteLimit == 2
FolderNames == {"bucket_folder_name", "f"}
DeleteNames == {"a.txt", "b.txt", "c.txt", "d.txt"}
Folders ==
  {f \in SeqsUpTo(DeleteNames, MaxFolder) :
     \A i, j \in DOMAIN f : f[i] = f[j] => i = j}

\* Values the list call can hand back: None, a list of entries, or something
\* that is not a list (an empty or a non-empty dict).
NoneResponse == [kind |-> "none", items |-> <<>>]
ListResponse(items) == [kind |-> "list", items |-> items]
OddResponses == {NoneResponse, [kind |-> "empty_dict", items |-> <<>>],
                 [kind |-> "dict", items |-> <<>>]}

Truthy(resp) == resp.kind = "dict" \/ (resp.kind = "list" /\ resp.items # <<>>)

IsList(resp) == resp.kind = "list"

SkipTruthinessCheck(resp) == ~IsList(resp)

\* "if not response or not isinstance(response, list)"
NothingToDelete(resp) == ~Truthy(resp) \/ ~IsList(resp)

\* [f"{folder_name}/{file['name']}" for file in response]
FilePathList(dir, items) == [i \in DOMAIN items |-> dir \o "/" \o items[i].name]

\* The entries the service lists for the folder; each carries its name.
EntriesOf(names) == [i \in DOMAIN names |-> [name |-> names[i]]]

\* Lines 60 to 65 after the list call has returned resp.
DeleteAfterList(resp) ==
  /\ dListCalls' = dListCalls + 1
  /\ response' = resp
  /\ dpc' = IF NothingToDelete(resp) THEN "done" ELSE "remove"
  /\ UNCHANGED <<folder_name, folder, folderAtStart, removeCalls, deleteStatus>>

\* The list call returns the first DeleteLimit entries of the folder.
DeleteListReturns ==
  /\ dpc = "list"
  /\ DeleteAfterList(ListResponse(ListPage(EntriesOf(folder), DeleteLimit, 0)))
  /\ UNCHANGED <<fetchVars, csvVars, uploadVars, mainVars>>

\* The list call returns None or a value that is not a list.
DeleteListReturnsOdd ==
  /\ dpc = "list"
  /\ \E resp \in OddResponses : DeleteAfterList(resp)
  /\ UNCHANGED <<fetchVars, csvVars, uploadVars, mainVars>>

\* The list call raises: response keeps its initial None, except branch.
DeleteListRaises ==
  /\ dpc = "list"
  /\ dListCalls' = dListCalls + 1
  /\ dpc' = "done"
  /\ deleteStatus' = "list_raised"
  /\ UNCHANGED <<folder_name, folder, folderAtStart, response, removeCalls>>
  /\ UNCHANGED <<fetchVars, csvVars, uploadVars, mainVars>>

\* The storage service: remove(paths) that answers 200 has removed the paths.
FolderAfterRemove(dir, names, paths) ==
  SelectSeq(names, LAMBDA n : \A i \in DOMAIN paths : paths[i] # dir \o "/" \o n)

\* remove() answers httpStatusCode 200.
DeleteRemoveOk ==
  /\ dpc = "remove"
  /\ LET file_path_list == FilePathList(folder_name, response.items) IN
       /\ removeCalls' = Append(removeCalls, file_path_list)
       /\ folder' = FolderAfterRemove(folder_name, folder, file_path_list)
  /\ deleteStatus' = "ok"
  /\ dpc' = "done"
  /\ UNCHANGED <<folder_name, folderAtStart, response, dListCalls>>
  /\ UNCHANGED <<fetchVars, csvVars, uploadVars, mainVars>>

\* remove() answers another httpStatusCode: nothing was removed.
DeleteRemoveRejected ==
  /\ dpc = "remove"
  /\ removeCalls' = Append(removeCalls, FilePathList(folder_name, response.items))
  /\ deleteStatus' = "failed"
  /\ dpc' = "done"
  /\ UNCHANGED <<folder_name, folder, folderAtStart, response, dListCalls>>
  /\ UNCHANGED <<fetchVars, csvVars, uploadVars, mainVars>>

\* remove() raises, or its answer has no httpStatusCode: except branch.
DeleteRemoveRaises ==
  /\ dpc = "remove"
  /\ LET file_path_list == FilePathList(folder_name, response.items) IN
       /\ removeCalls' = Append(removeCalls, file_path_list)
       /\ \E removed \in BOOLEAN :
            folder' = IF removed
                        THEN FolderAfterRemove(folder_name, folder, file_path_list)
                        ELSE folder
  /\ deleteStatus' = "remove_raised"
  /\ dpc' = "done"
  /\ UNCHANGED <<folder_name, folderAtStart, response, dListCalls>>
  /\ UNCHANGED <<fetchVars, csvVars, uploadVars, mainVars>>

DeleteStart(dir, names, pc) ==
  /\ folder_name = dir
  /\ folder = names
  /\ folderAtStart = names
  /\ response = NoneResponse
  /\ dpc = pc
  /\ dListCalls = 0
  /\ removeCalls = <<>>
  /\ deleteStatus = "none"

----------------------------------------------------------------------------
\* delete_missing_ids_from_database and the __main__ workflow of
\* missing_file_uploader.py
\* The default of the "limit" parameter; 10000 in the source, scaled down.
DefaultLimit == 2
MaxMainRows == 2
MaxMainRemote == 2
MainExtension == "txt"
SourceTag == "archive_of_our_own"
MainEntries ==
  { [name |-> "1.txt", metadata |-> [truthy |-> TRUE, hasSize |-> TRUE, size |-> 5]],
    [name |-> "2.txt", metadata |-> [truthy |-> TRUE, hasSize |-> TRUE, size |-> 0]] }
MainLocalDirs == {{}, {"1.txt"}, {"1.txt", "2.txt"}}

\* The one query delete_missing_ids_from_database builds and executes.
DbDeleteCall(ids, raised) ==
  [kind |-> "db_delete", ids |-> ids, source |-> SourceTag, raised |-> raised]

UploadCall(ids) ==
  [kind |-> "upload", ids |-> ids, source |-> "", raised |-> FALSE]

\* Lines 196 to 205: unpack the fetch result, test it against None, and call
\* get_missing_files_from_csv.
MainAfterFetch ==
  /\ mpc = "fetch"
  /\ fpc = "done"
  /\ LET bucket_file_list == fetchResult[1]
         zero_byte_file_list == fetchResult[2]
     IN  IF bucket_file_list.isNone
           THEN /\ mpc' = "exit"
                /\ UNCHANGED csvVars
           ELSE /\ mpc' = "reconcile"
                /\ cpc' = "open"
                /\ file_list' = bucket_file_list.val
                /\ zero_byte_list' = zero_byte_file_list.val
                /\ UNCHANGED <<csvRows, file_extension, rowIdx, missing_ids, csvFailed>>
  /\ UNCHANGED <<fetchVars, uploadVars, deleteVars, resolverCalls>>

\* "if missing_file_ids:" is false.
MainNothingMissing ==
  /\ mpc = "reconcile"
  /\ cpc = "done"
  /\ missing_ids = <<>>
  /\ mpc' = "done"
  /\ UNCHANGED <<fetchVars, csvVars, uploadVars, deleteVars, resolverCalls>>

\* choice "1" and os.path.isdir(retry_directory): upload_missing_files starts.
MainChooseUpload ==
  /\ mpc = "reconcile"
  /\ cpc = "done"
  /\ missing_ids # <<>>
  /\ resolverCalls' = Append(resolverCalls, UploadCall(missing_ids))
  /\ missing_files' = missing_ids
  /\ upc' = "loop"
  /\ mpc' = "resolve"
  /\ UNCHANGED <<fetchVars, csvVars, deleteVars, localFiles, uidx, uploadCalls, outcomes>>

\* choice "1" and the directory is invalid.
MainInvalidDirectory ==
  /\ mpc = "reconcile"
  /\ cpc = "done"
  /\ missing_ids # <<>>
  /\ mpc' = "done"
  /\ UNCHANGED <<fetchVars, csvVars, uploadVars, deleteVars, resolverCalls>>

\* choice "2": delete_missing_ids_from_database, which catches what it raises.
MainChooseDbDelete ==
  /\ mpc = "reconcile"
  /\ cpc = "done"
  /\ missing_ids # <<>>
  /\ \E raised \in BOOLEAN :
       resolverCalls' = Append(resolverCalls, DbDeleteCall(missing_ids, raised))
  /\ mpc' = "done"
  /\ UNCHANGED <<fetchVars, csvVars, uploadVars, deleteVars>>

\* any other choice.
MainChooseNothing ==
  /\ mpc = "reconcile"
  /\ cpc = "done"
  /\ missing_ids # <<>>
  /\ mpc' = "done"
  /\ UNCHANGED <<fetchVars, csvVars, uploadVars, deleteVars, resolverCalls>>

\* upload_missing_files has returned: end of the script.
MainUploadReturned ==
  /\ mpc = "resolve"
  /\ upc = "done"
  /\ mpc' = "done"
  /\ UNCHANGED <<fetchVars, csvVars, uploadVars, deleteVars, resolverCalls>>

MainOff == mpc = "off" /\ resolverCalls = <<>>

----------------------------------------------------------------------------
\* fetch_file_list_from_bucket on any listing and page size.
InitFetch ==
  /\ \E listing \in SeqsUpTo(Entries, MaxRemote), lim \in 1..MaxLimit :
       FetchStart(listing, lim)
  /\ CsvIdle
  /\ UploadStart(<<>>, {}, "idle")
  /\ DeleteStart("f", <<>>, "idle")
  /\ MainOff
NextFetch == FetchPage \/ FetchListRaises
SpecFetch == InitFetch /\ [][NextFetch]_vars

\* get_missing_files_from_csv on any CSV, extension, inventory and zero-byte set.
InitCsv ==
  /\ FetchIdle
  /\ \E rows \in SeqsUpTo(RowValues, MaxRows), ext \in Extensions,
        files \in SUBSET FetchNames, zero_bytes \in SUBSET FetchNames :
       CsvStart(rows, ext, files, zero_bytes, "open")
  /\ UploadStart(<<>>, {}, "idle")
  /\ DeleteStart("f", <<>>, "idle")
  /\ MainOff
NextCsv == CsvOpen \/ CsvOpenRaises \/ CsvRow \/ CsvReadRaises \/ CsvEnd
SpecCsv == InitCsv /\ [][NextCsv]_vars

\* upload_missing_files on any list of ids and any local directory.
InitUpload ==
  /\ FetchIdle
  /\ CsvIdle
  /\ \E ids \in SeqsUpTo(UploadIds, MaxMissing), files \in SUBSET LocalNames :
       UploadStart(ids, files, "loop")
  /\ DeleteStart("f", <<>>, "idle")
  /\ MainOff
NextUpload ==
  UploadNotFound \/ UploadReadRaises \/ UploadCallRaises \/ UploadResponse \/ UploadEnd
SpecUpload == InitUpload /\ [][NextUpload]_vars

\* delete_folder on any folder.
InitDelete ==
  /\ FetchIdle
  /\ CsvIdle
  /\ UploadStart(<<>>, {}, "idle")
  /\ \E dir \in FolderNames, names \in Folders : DeleteStart(dir, names, "list")
  /\ MainOff
NextDelete ==
  \/ DeleteListReturns \/ DeleteListReturnsOdd \/ DeleteListRaises
  \/ DeleteRemoveOk \/ DeleteRemoveRejected \/ DeleteRemoveRaises
SpecDelete == InitDelete /\ [][NextDelete]_vars

\* The script missing_file_uploader.py run as __main__.
InitMain ==
  /\ \E listing \in SeqsUpTo(MainEntries, MaxMainRemote) :
       FetchStart(listing, DefaultLimit)
  /\ \E rows \in SeqsUpTo(RowValues, MaxMainRows) :
       CsvStart(rows, MainExtension, {}, {}, "idle")
  /\ \E files \in MainLocalDirs : UploadStart(<<>>, files, "idle")
  /\ DeleteStart("f", <<>>, "idle")
  /\ mpc = "fetch"
  /\ resolverCalls = <<>>
NextMain ==
  \/ FetchPage \/ FetchListRaises
  \/ CsvOpen \/ CsvOpenRaises \/ CsvRow \/ CsvReadRaises \/ CsvEnd
  \/ UploadNotFound \/ UploadReadRaises \/ UploadCallRaises \/ UploadResponse
  \/ UploadEnd
  \/ MainAfterFetch
  \/ MainNothingMissing
  \/ MainChooseUpload
  \/ MainInvalidDirectory
  \/ MainChooseDbDelete
  \/ MainChooseNothing
  \/ MainUploadReturned
SpecMain == InitMain /\ [][NextMain]_vars

----------------------------------------------------------------------------
\* Properties of get_missing_files_from_csv, checked under SpecCsv.

\* The ids of rows, in row order, that have a non-empty id and no valid file.
ExpectedMissing(rows, ext, files, zero_bytes) ==
  LET Kept(row) == /\ row.hasId
                   /\ row.id # ""
                   /\ ~((row.id \o "." \o ext) \in files
                        /\ (row.id \o "." \o ext) \notin zero_bytes)
      kept == SelectSeq(rows, Kept)
  IN  [i \in DOMAIN kept |-> kept[i].id]

\* C1: when the CSV is read without error, the function returns the ids of the
\* rows, in row order and with duplicates, whose id is present and non-empty
\* and whose file "{id}.{ext}" is not (in the inventory and not zero-byte).
C1_MissingInRowOrder ==
  (cpc = "done" /\ ~csvFailed) =>
     missing_ids = ExpectedMissing(csvRows, file_extension, file_list, zero_byte_list)

\* The scenario of the specification with a skipped row in the middle:
\* rows 1, (no id), 2, 3 against {1.txt, 2.txt} with 2.txt zero-byte.
C1_Witness ==
  /\ cpc = "done"
  /\ ~csvFailed
  /\ csvRows = <<[hasId |-> TRUE, id |-> "1"], NoId,
                 [hasId |-> TRUE, id |-> "2"], [hasId |-> TRUE, id |-> "3"]>>
  /\ file_extension = "txt"
  /\ file_list = {"1.txt", "2.txt"}
  /\ zero_byte_list = {"2.txt"}
  /\ missing_ids = <<"2", "3">>

\* C4: when the read fails, on open or after k rows, the function stops
\* processing rows and returns the missing ids of the k rows processed
\* before the failure, in row order (the empty list when k = 0).
C4_PartialOnCsvError ==
  csvFailed =>
    /\ cpc = "done"
    /\ missing_ids = ExpectedMissing(SubSeq(csvRows, 1, rowIdx), file_extension,
                                     file_list, zero_byte_list)
    /\ (rowIdx = 0 => missing_ids = <<>>)

\* A failure after two of three rows, with something accumulated.
C4_Witness ==
  /\ csvFailed
  /\ cpc = "done"
  /\ rowIdx = 2
  /\ Len(csvRows) = 3
  /\ missing_ids # <<>>
  /\ csvRows[3].hasId /\ csvRows[3].id # ""
  /\ FileName(csvRows[3].id, file_extension) \notin file_list

----------------------------------------------------------------------------
\* Properties of fetch_file_list_from_bucket, checked under SpecFetch.

AllNames(ps) == UNION {NamesOf(ps[i]) : i \in DOMAIN ps}

\* C2: the list calls are issued at offsets 0, L, 2L, ...; every page but the
\* last one fetched has exactly L entries, so no call follows a short page;
\* while the loop runs every page fetched was full; when no call failed the
\* function returns right after a page shorter than L, and the name set it
\* returns is the union of the names of the pages fetched.
C2_Paging ==
  /\ \A i \in DOMAIN listCalls : listCalls[i] = (i - 1) * limit
  /\ \A i \in DOMAIN pages : i < Len(pages) => Len(pages[i]) = limit
  /\ (fpc = "loop" => \A i \in DOMAIN pages : Len(pages[i]) = limit)
  /\ (~fetchFailed => Len(listCalls) = Len(pages))
  /\ (fpc = "done" /\ ~fetchFailed) =>
        /\ pages # <<>>
        /\ Len(pages[Len(pages)]) < limit
        /\ fetchResult[1] = SetVal(AllNames(pages))

\* A listing of exactly L = 2 entries with two names: a full page, then the
\* empty page that stops the loop.
C2_Witness ==
  /\ fpc = "done"
  /\ ~fetchFailed
  /\ limit = 2
  /\ listCalls = <<0, 2>>
  /\ Len(pages[1]) = 2
  /\ pages[2] = <<>>
  /\ fetchResult[1].val = {"1.txt", "2.txt"}

\* C3: if a list call fails, on the first or on a later page, the function
\* returns (it does not raise) a pair of empty sets, whatever it accumulated:
\* the result of an empty directory.
C3_EmptyOnFailure ==
  fetchFailed =>
    /\ fpc = "done"
    /\ fetchResult = <<SetVal({}), SetVal({})>>

\* The failure comes on a later page, after names and zero-byte names were
\* accumulated.
C3_Witness ==
  /\ fetchFailed
  /\ fpc = "done"
  /\ Len(pages) >= 1
  /\ available_files # {}
  /\ zero_byte_files # {}

\* C8: the zero-byte set returned is a subset of the name set returned and
\* holds a name iff some listed entry of that name has size metadata which
\* reports size 0; no metadata, or metadata without a size, never counts.
C8_ZeroByteIffSizeZero ==
  (fpc = "done" /\ ~fetchFailed) =>
     /\ fetchResult[2].val \subseteq fetchResult[1].val
     /\ \A n \in FetchNames :
          n \in fetchResult[2].val <=>
            \E i \in DOMAIN pages : \E j \in DOMAIN pages[i] :
               /\ pages[i][j].name = n
               /\ pages[i][j].metadata.truthy
               /\ pages[i][j].metadata.hasSize
               /\ pages[i][j].metadata.size = 0

----------------------------------------------------------------------------
\* Properties of upload_missing_files, checked under SpecUpload.

CallsFor(i) == Cardinality({k \in DOMAIN uploadCalls : uploadCalls[k].index = i})

ExistsLocally(i) == (missing_files[i] \o "." \o file_extension) \in localFiles

\* C5 as stated: every entry is visited in order, nothing is raised, and the
\* number of upload calls of an entry is 1 if its file exists and 0 if not.
C5_OneCallPerExistingFile ==
  /\ upc # "raised"
  /\ upc = "done" =>
       /\ Len(outcomes) = Len(missing_files)
       /\ \A i \in DOMAIN missing_files :
            /\ outcomes[i].id = missing_files[i]
            /\ CallsFor(i) = IF ExistsLocally(i) THEN 1 ELSE 0

\* C5 amended: every entry is visited in order, nothing is raised, and the
\* number of upload calls of an entry is 1 if its file exists and was read
\* without error, 0 if it does not exist or reading it raised; the calls are
\* issued in list order, whatever happened to the earlier entries.
C5_OneCallPerReadableFile ==
  /\ upc # "raised"
  /\ Len(outcomes) = uidx
  /\ \A k \in DOMAIN uploadCalls :
       /\ uploadCalls[k].index \in 1..uidx
       /\ uploadCalls[k].path =
            "contents/" \o missing_files[uploadCalls[k].index] \o "." \o file_extension
       /\ \A m \in DOMAIN uploadCalls : k < m => uploadCalls[k].index < uploadCalls[m].index
  /\ upc = "done" =>
       /\ Len(outcomes) = Len(missing_files)
       /\ \A i \in DOMAIN missing_files :
            /\ outcomes[i].id = missing_files[i]
            /\ outcomes[i].exists = ExistsLocally(i)
            /\ CallsFor(i) =
                 IF ExistsLocally(i) /\ ~outcomes[i].readRaised THEN 1 ELSE 0

\* Three entries: the first is not found, the read of the second raises, the
\* upload of the third is still issued.
C5_Witness ==
  /\ upc = "done"
  /\ missing_files = <<"2", "1", "1">>
  /\ localFiles = {"1.txt"}
  /\ outcomes[1].report = "not_found"
  /\ outcomes[2].readRaised
  /\ outcomes[3].report = "success"
  /\ uploadCalls = <<[index |-> 3, path |-> "contents/1.txt"]>>

\* C7: a response is reported as a successful upload when its status code is
\* in 200..299 and as a failure when it is not.
C7_SuccessIff2xx ==
  \A i \in DOMAIN outcomes :
     outcomes[i].status # 0 =>
        IF outcomes[i].status \in 200..299
          THEN outcomes[i].report = "success"
          ELSE outcomes[i].report \in {"failed_json_error", "failed_raw_text", "error"}

----------------------------------------------------------------------------
\* Properties of delete_folder, checked under SpecDelete.

\* C6: exactly one list call and at most one remove call are issued and
\* nothing is raised; when the listing is empty, None or not a list there is
\* no remove call, otherwise there is exactly one, for the paths
\* "{folder}/{name}" of the listed entries in listing order.
C6_OneListOneRemove ==
  /\ dpc \in {"list", "remove", "done"}
  /\ dListCalls = IF dpc = "list" THEN 0 ELSE 1
  /\ Len(removeCalls) <= 1
  /\ (dpc = "remove" => removeCalls = <<>>)
  /\ dpc = "done" =>
       IF response.kind = "list" /\ response.items # <<>>
         THEN removeCalls =
                << [i \in DOMAIN response.items |->
                      folder_name \o "/" \o response.items[i].name] >>
         ELSE removeCalls = <<>>

\* A folder of two files, removed with one call naming both in listing order.
C6_Witness ==
  /\ dpc = "done"
  /\ folder_name = "bucket_folder_name"
  /\ folderAtStart = <<"b.txt", "a.txt">>
  /\ removeCalls = << <<"bucket_folder_name/b.txt", "bucket_folder_name/a.txt">> >>

\* C9: after delete_folder has returned with remove() reporting status 200,
\* no file that was in the folder at the start remains in it.
C9_FolderEmptied ==
  (dpc = "done" /\ deleteStatus = "ok") =>
     \A i \in DOMAIN folderAtStart : \A j \in DOMAIN folder :
        folder[j] # folderAtStart[i]

----------------------------------------------------------------------------
\* Properties of the __main__ workflow, checked under SpecMain.

NonEmptyIds(rows) ==
  LET kept == SelectSeq(rows, LAMBDA row : row.hasId /\ row.id # "")
  IN  [i \in DOMAIN kept |-> kept[i].id]

\* What C10 says of every run apart from the list reported after a failed
\* fetch: the exit branch is never taken, reconciliation has run before the
\* script resolves or ends, the resolver is invoked at most once, only with a
\* non-empty list, and receives the missing list; the database delete carries
\* the fixed source tag.
MainShape ==
  /\ mpc # "exit"
  /\ (mpc = "reconcile" => cpc # "idle")
  /\ (mpc \in {"resolve", "done"} => cpc = "done")
  /\ Len(resolverCalls) <= 1
  /\ (upc # "idle" => /\ Len(resolverCalls) = 1
                      /\ resolverCalls[1].kind = "upload"
                      /\ missing_files = missing_ids)
  /\ \A k \in DOMAIN resolverCalls :
       /\ missing_ids # <<>>
       /\ resolverCalls[k].ids = missing_ids
       /\ cpc = "done"
       /\ (resolverCalls[k].kind = "db_delete" =>
              resolverCalls[k].source = "archive_of_our_own")

\* C10 as stated: MainShape, and after a failed fetch every non-empty id of
\* the CSV is reported missing, in row order.
C10_AllCsvIdsAfterFailedFetch ==
  /\ MainShape
  /\ (fetchFailed /\ cpc = "done") => missing_ids = NonEmptyIds(csvRows)

\* C10 amended: MainShape, and after a failed fetch every non-empty id of the
\* CSV rows read (all of them when the CSV is read without error, those
\* before the failure otherwise) is reported missing, in row order.
C10_ReadCsvIdsAfterFailedFetch ==
  /\ MainShape
  /\ (fetchFailed /\ cpc = "done") =>
        /\ missing_ids = NonEmptyIds(SubSeq(csvRows, 1, rowIdx))
        /\ (~csvFailed => missing_ids = NonEmptyIds(csvRows))

\* The fetch fails after a page that held 1.txt; the CSV is read whole, id 1
\* is reported missing all the same and the list goes to the database delete.
C10_Witness ==
  /\ mpc = "done"
  /\ fetchFailed
  /\ available_files = {"1.txt"}
  /\ ~csvFailed
  /\ csvRows = <<[hasId |-> TRUE, id |-> "1"], [hasId |-> TRUE, id |-> ""]>>
  /\ missing_ids = <<"1">>
  /\ Len(resolverCalls) = 1
  /\ resolverCalls[1].kind = "db_delete"
  /\ resolverCalls[1].ids = <<"1">>

====
